---- MODULE Spec2Model ----
(***************************************************************************)
(* Model of packages/amplify-cli/src/init-steps/s0-analyzeProject.ts:      *)
(* one invocation of analyzeProject or of analyzeProjectHeadless, with the *)
(* prompts, the persisted state and the input parameters as environment.   *)
(*                                                                         *)
(* JavaScript strings whose characters matter (project and environment     *)
(* names) are sequences of one-character strings.  An optional value is a  *)
(* tuple: None is undefined, Some(v) is the value v.                       *)
(***************************************************************************)
EXTENDS Integers, Sequences, FiniteSets, TLC

VARIABLES
    fn,             \* the exported function this invocation runs
    inputParams,    \* context.exeInfo.inputParams (read-only)
    options,        \* context.parameters.options (read-only)
    cwdBase,        \* path.basename(process.cwd())
    projectConfigFile,   \* persisted project config file, None when absent
    localEnvInfoFile,    \* persisted local-env-info file, None when absent
    teamProviderFile,    \* persisted team-provider-info file, None when absent
    pc,             \* position of the invocation
    projectName,    \* local of analyzeProject
    envName,        \* local of analyzeProject / getEnvName
    defaultEditor,  \* local of analyzeProject
    promptDefault,  \* default offered by the pending text prompt
    exeInfo,        \* context.exeInfo fields written by this file
    log,            \* calls, prints and prompts in the order they happen
    exitRequest,    \* exit code handed to exitOnNextTick, None if none
    exitCode        \* exit status once the process has exited

vars == <<fn, inputParams, options, cwdBase, projectConfigFile, localEnvInfoFile,
          teamProviderFile, pc, projectName, envName, defaultEditor,
          promptDefault, exeInfo, log, exitRequest, exitCode>>

inputs == <<fn, inputParams, options, cwdBase, projectConfigFile,
            localEnvInfoFile, teamProviderFile>>

----------------------------------------------------------------------------
(* Optional values and strings *)

None == <<>>
Some(v) == <<v>>
Val(o) == o[1]

Rep(c, n) == [i \in 1..n |-> c]

LowerCase == {"a","b","c","d","e","f","g","h","i","j","k","l","m",
              "n","o","p","q","r","s","t","u","v","w","x","y","z"}
UpperCase == {"A","B","C","D","E","F","G","H","I","J","K","L","M",
              "N","O","P","Q","R","S","T","U","V","W","X","Y","Z"}
Digits == {"0","1","2","3","4","5","6","7","8","9"}

\* JavaScript truthiness of an optional character string
Truthy(o) == o # None /\ Val(o) # <<>>

\* JavaScript truthiness of an optional editor name
TruthyEditor(o) == o # None /\ Val(o) # ""

----------------------------------------------------------------------------
(* Bounds and input sets *)

\* how many lengths beyond the allowed maximum the inputs include
MaxExtra == 1

EnvMinLen == 2
EnvMaxLen == 10
ProjMinLen == 3
ProjMaxLen == 20

dev == <<"d","e","v">>
prod == <<"p","r","o","d">>

EnvNameInputs ==
    { dev, <<"D","E","V">>, <<"d","3","v">>,
      Rep("a", EnvMinLen - 1), Rep("a", EnvMinLen), Rep("a", EnvMaxLen) }
    \cup { Rep("a", EnvMaxLen + k) : k \in 1..MaxExtra }

ProjectNameInputs ==
    { <<"s","h","o","p","1">>, <<"m","y","-","a","p","p">>, <<"a","!">> }
    \cup { Rep("a", ProjMaxLen + k) : k \in 1..MaxExtra }

FolderNames == { <<"m","y","-","a","p","p">>, <<"x">> }

PersistedProjectNames == { <<"o","l","d","_","a","p","p">> }

EditorParams == { "VSCODE" }
PersistedEditors == { "", "vim" }
EditorChoices == { "vscode", "none" }

KnownEnvPool == { dev, prod }

Opt(S) == {None} \cup { Some(v) : v \in S }

----------------------------------------------------------------------------
(* Helpers of other modules *)

CURRENT_PROJECT_CONFIG_VERSION == "CURRENT_PROJECT_CONFIG_VERSION"

\* project-name-validation: letters and digits only, length 3 to 20
isProjectNameValid(s) ==
    /\ Len(s) >= ProjMinLen
    /\ Len(s) <= ProjMaxLen
    /\ \A i \in 1..Len(s) : s[i] \in LowerCase \cup UpperCase \cup Digits

\* project-name-validation: strips the disallowed characters
normalizeProjectName(s) ==
    SelectSeq(s, LAMBDA c : c \in LowerCase \cup UpperCase \cup Digits)

\* editor-selection: maps an editor parameter to its canonical name
normalizeEditor(e) == IF e = "VSCODE" THEN "vscode" ELSE e

\* stateManager.getTeamProviderInfo(projectPath, {throwIfNotExist: false, default: {}}):
\* the keys of the mapping, every entry being an object
getTeamProviderInfo ==
    IF teamProviderFile = None THEN {} ELSE Val(teamProviderFile)

\* context.amplify.getAllEnvs(): the known environment names
getAllEnvs == getTeamProviderInfo

----------------------------------------------------------------------------
(* Functions of s0-analyzeProject.ts *)

\* variant: the upper length limit of the pattern is dropped
isEnvNameValidNoMax(inputEnvName) ==
    /\ Len(inputEnvName) >= EnvMinLen
    /\ \A i \in 1..Len(inputEnvName) : inputEnvName[i] \in LowerCase

isEnvNameValid(inputEnvName) ==
    /\ Len(inputEnvName) >= EnvMinLen
    /\ Len(inputEnvName) <= EnvMaxLen
    /\ \A i \in 1..Len(inputEnvName) : inputEnvName[i] \in LowerCase

\* variant: the existence of the project config file is not looked at
isNewProjectAlways == TRUE

isNewProject == projectConfigFile = None

\* variant: the team-provider mapping is not looked at
isNewEnvIgnoringMapping(name) == TRUE

isNewEnv(name) == ~ (name # None /\ Val(name) \in getTeamProviderInfo)

\* variant: the persisted editor is not read
getDefaultEditorUnread == None

getDefaultEditor ==
    IF localEnvInfoFile = None THEN None ELSE Val(localEnvInfoFile).defaultEditor

getDefaultEnv ==
    IF isNewProject \/ dev \notin getAllEnvs THEN Some(dev) ELSE None

ExplicitProjectName ==
    /\ inputParams.amplify # None
    /\ Truthy(Val(inputParams.amplify).projectName)

ExplicitEnvName ==
    /\ inputParams.amplify # None
    /\ Truthy(Val(inputParams.amplify).envName)

ExplicitEditor ==
    /\ inputParams.amplify # None
    /\ TruthyEditor(Val(inputParams.amplify).defaultEditor)

EmptyExeInfo ==
    [ isNewProject |-> None, isNewEnv |-> None, forcePush |-> None,
      sourceEnvName |-> None, projectConfig |-> None, localEnvInfo |-> None,
      teamProviderInfo |-> None, metaData |-> None ]

\* setProjectConfig(context, projectName)
setProjectConfig(info, name) ==
    [ info EXCEPT !.isNewProject = Some(isNewProject),
                  !.projectConfig = Some([ projectName |-> name,
                                           version |-> CURRENT_PROJECT_CONFIG_VERSION,
                                           frontend |-> None ]) ]

\* setExeInfo(context, projectPath, defaultEditor, envName)
setExeInfo(info, editor, env) ==
    [ info EXCEPT !.localEnvInfo = Some([ projectPath |-> "cwd",
                                          defaultEditor |-> editor,
                                          envName |-> env ]),
                  !.teamProviderInfo = Some({}),
                  !.metaData = Some({}) ]

----------------------------------------------------------------------------
(* Initial states *)

AmplifyParams ==
    [ projectName : Opt(ProjectNameInputs),
      envName : Opt(EnvNameInputs \cup {<<>>}),
      defaultEditor : Opt(EditorParams) ]

LocalEnvInfos ==
    [ defaultEditor : Opt(PersistedEditors), envName : Opt({dev}) ]

Init ==
    /\ fn \in {"analyzeProject", "analyzeProjectHeadless"}
    /\ inputParams \in [ amplify : Opt(AmplifyParams), yes : BOOLEAN ]
    /\ options \in [ app : BOOLEAN, quickstart : BOOLEAN,
                     forcePush : BOOLEAN, frontend : Opt({"javascript"}) ]
    /\ cwdBase \in FolderNames
    /\ projectConfigFile \in Opt([ projectName : PersistedProjectNames ])
    /\ localEnvInfoFile \in Opt(LocalEnvInfos)
    /\ teamProviderFile \in Opt(SUBSET KnownEnvPool)
    \* each entry point is started with the parameters it reads
    /\ fn = "analyzeProject" => options.frontend = None
    /\ fn = "analyzeProjectHeadless" =>
          /\ inputParams = [ amplify |-> None, yes |-> TRUE ]
          /\ ~ options.app /\ ~ options.quickstart /\ ~ options.forcePush
    /\ pc = "start"
    /\ projectName = None
    /\ envName = None
    /\ defaultEditor = None
    /\ promptDefault = None
    /\ exeInfo = EmptyExeInfo
    /\ log = <<>>
    /\ exitRequest = None
    /\ exitCode = None

----------------------------------------------------------------------------
(* Sequencing of analyzeProject: the statement that follows each resolver *)

\* variant: the editor is resolved right after the project name
afterGetProjectNameEditorFirst == "getDefaultEditor"

afterGetProjectName == "getEnvName"

afterGetEnvName == "getDefaultEditor"

afterEditor == "classify"

AwaitingPrompt ==
    pc \in {"awaitProjectName", "awaitEnvName", "awaitConfirm",
            "awaitEnvChoice", "awaitEditor"}

----------------------------------------------------------------------------
(* analyzeProject *)

\* analyzeProject up to the call of getProjectName
AnalyzeProject ==
    /\ pc = "start"
    /\ fn = "analyzeProject"
    /\ log' = log \o (IF ~ options.app \/ ~ options.quickstart
                        THEN <<"warning:rootDirectory">> ELSE <<>>)
    /\ exeInfo' = [ exeInfo EXCEPT !.isNewProject = Some(isNewProject) ]
    /\ pc' = "getProjectName"
    /\ UNCHANGED <<inputs, projectName, envName, defaultEditor, promptDefault,
                   exitRequest, exitCode>>

\* getProjectName up to its return or to its prompt
GetProjectName ==
    /\ pc = "getProjectName"
    /\ IF ~ Val(exeInfo.isNewProject)
         THEN /\ projectName' = Some(Val(projectConfigFile).projectName)
              /\ log' = log \o <<"getProjectName">>
              /\ pc' = afterGetProjectName
              /\ UNCHANGED promptDefault
         ELSE IF ExplicitProjectName
         THEN /\ projectName' =
                    Some(normalizeProjectName(Val(Val(inputParams.amplify).projectName)))
              /\ log' = log \o <<"getProjectName">>
              /\ pc' = afterGetProjectName
              /\ UNCHANGED promptDefault
         ELSE /\ projectName' = Some(normalizeProjectName(cwdBase))
              /\ IF ~ inputParams.yes
                   THEN /\ log' = log \o <<"getProjectName", "prompt:projectName">>
                        /\ promptDefault' = Some(normalizeProjectName(cwdBase))
                        /\ pc' = "awaitProjectName"
                   ELSE /\ log' = log \o <<"getProjectName">>
                        /\ pc' = afterGetProjectName
                        /\ UNCHANGED promptDefault
    /\ UNCHANGED <<inputs, envName, defaultEditor, exeInfo, exitRequest, exitCode>>

\* the project-name prompt returns an answer its validate function accepts
ProjectNameAnswer ==
    /\ pc = "awaitProjectName"
    /\ exitRequest = None
    /\ \E input \in ProjectNameInputs \cup {Val(promptDefault)} :
          /\ isProjectNameValid(input)
          /\ projectName' = Some(input)
    /\ promptDefault' = None
    /\ pc' = afterGetProjectName
    /\ UNCHANGED <<inputs, envName, defaultEditor, exeInfo, log, exitRequest, exitCode>>

\* newEnvQuestion up to inquirer.prompt
newEnvQuestionLog == <<"prompt:envName">>

\* whether getEnvName asks 'Do you want to use an existing environment?'
\* variant: the question is asked for new projects too
askExistingAnyProject == getAllEnvs # {}

askExisting == ~ isNewProject /\ getAllEnvs # {}

\* what getEnvName prints and requests before it goes on to the prompts
envNameFatal ==
    IF ExplicitEnvName
      THEN IF isEnvNameValid(Val(Val(inputParams.amplify).envName))
             THEN <<>>
             ELSE <<"error:invalidEnvName", "emitError", "exitOnNextTick">>
      ELSE IF inputParams.yes
             THEN <<"error:envNameMissing", "emitError", "exitOnNextTick">>
             ELSE <<>>

\* getEnvName up to its return or to its first prompt
GetEnvName ==
    /\ pc = "getEnvName"
    /\ IF ExplicitEnvName /\ isEnvNameValid(Val(Val(inputParams.amplify).envName))
         THEN /\ envName' = Some(Val(Val(inputParams.amplify).envName))
              /\ log' = log \o <<"getEnvName">>
              /\ pc' = afterGetEnvName
              /\ UNCHANGED <<promptDefault, exitRequest>>
         ELSE /\ exitRequest' = IF envNameFatal # <<>> THEN Some(1) ELSE exitRequest
              /\ UNCHANGED envName
              /\ IF askExisting
                   THEN /\ log' = log \o <<"getEnvName">> \o envNameFatal
                                      \o <<"prompt:confirm">>
                        /\ pc' = "awaitConfirm"
                        /\ UNCHANGED promptDefault
                   ELSE /\ log' = log \o <<"getEnvName">> \o envNameFatal
                                      \o newEnvQuestionLog
                        /\ promptDefault' = getDefaultEnv
                        /\ pc' = "awaitEnvName"
    /\ UNCHANGED <<inputs, projectName, defaultEditor, exeInfo, exitCode>>

\* answer to 'Do you want to use an existing environment?'
ConfirmAnswer ==
    /\ pc = "awaitConfirm"
    /\ exitRequest = None
    /\ \E useExisting \in BOOLEAN :
          IF useExisting
            THEN /\ log' = log \o <<"answer:yes", "prompt:envList">>
                 /\ pc' = "awaitEnvChoice"
                 /\ UNCHANGED promptDefault
            ELSE /\ log' = log \o <<"answer:no">> \o newEnvQuestionLog
                 /\ promptDefault' = getDefaultEnv
                 /\ pc' = "awaitEnvName"
    /\ UNCHANGED <<inputs, projectName, envName, defaultEditor, exeInfo,
                   exitRequest, exitCode>>

\* the list prompt returns one of its choices
EnvChoiceAnswer ==
    /\ pc = "awaitEnvChoice"
    /\ exitRequest = None
    /\ \E choice \in getAllEnvs : envName' = Some(choice)
    /\ pc' = afterGetEnvName
    /\ UNCHANGED <<inputs, projectName, defaultEditor, promptDefault, exeInfo,
                   log, exitRequest, exitCode>>

\* the environment-name prompt returns an answer its validate function accepts
EnvNameAnswer ==
    /\ pc = "awaitEnvName"
    /\ exitRequest = None
    /\ \E input \in EnvNameInputs \cup {Val(d) : d \in {promptDefault} \ {None}} :
          /\ isEnvNameValid(input)
          /\ envName' = Some(input)
    /\ promptDefault' = None
    /\ pc' = afterGetEnvName
    /\ UNCHANGED <<inputs, projectName, defaultEditor, exeInfo, log,
                   exitRequest, exitCode>>

\* the callback of exitOnNextTick runs once the invocation is suspended
ProcessExit ==
    /\ exitRequest # None
    /\ AwaitingPrompt
    /\ exitCode' = exitRequest
    /\ pc' = "exited"
    /\ UNCHANGED <<inputs, projectName, envName, defaultEditor, promptDefault,
                   exeInfo, log, exitRequest>>

\* getDefaultEditor and, when it yields nothing, getEditor up to its return
\* or to the editor-selection prompt
GetDefaultEditor ==
    /\ pc = "getDefaultEditor"
    /\ IF TruthyEditor(getDefaultEditor)
         THEN /\ defaultEditor' = getDefaultEditor
              /\ log' = log \o <<"getDefaultEditor">>
              /\ pc' = afterEditor
         ELSE IF ExplicitEditor
         THEN /\ defaultEditor' =
                    Some(normalizeEditor(Val(Val(inputParams.amplify).defaultEditor)))
              /\ log' = log \o <<"getDefaultEditor", "getEditor">>
              /\ pc' = afterEditor
         ELSE IF ~ inputParams.yes
         THEN /\ defaultEditor' = getDefaultEditor
              /\ log' = log \o <<"getDefaultEditor", "getEditor", "prompt:editor">>
              /\ pc' = "awaitEditor"
         ELSE /\ defaultEditor' = None
              /\ log' = log \o <<"getDefaultEditor", "getEditor">>
              /\ pc' = afterEditor
    /\ UNCHANGED <<inputs, projectName, envName, promptDefault, exeInfo,
                   exitRequest, exitCode>>

\* editorSelection returns one of its choices
EditorAnswer ==
    /\ pc = "awaitEditor"
    /\ exitRequest = None
    /\ \E choice \in EditorChoices : defaultEditor' = Some(choice)
    /\ pc' = afterEditor
    /\ UNCHANGED <<inputs, projectName, envName, promptDefault, exeInfo, log,
                   exitRequest, exitCode>>

\* the carry-over of the prior environment name
\* variant: the carry-over does not look at the new-project flag
carryOverAnyProject(info) ==
    IF Val(info.isNewEnv) /\ localEnvInfoFile # None
      THEN [ info EXCEPT !.sourceEnvName = Val(localEnvInfoFile).envName ]
      ELSE info

carryOver(info) ==
    IF Val(info.isNewEnv) /\ ~ Val(info.isNewProject) /\ localEnvInfoFile # None
      THEN [ info EXCEPT !.sourceEnvName = Val(localEnvInfoFile).envName ]
      ELSE info

\* analyzeProject from the classification of the environment to its return
Assemble ==
    /\ pc = "classify"
    /\ exeInfo' =
          setExeInfo(
            setProjectConfig(
              carryOver([ exeInfo EXCEPT !.isNewEnv = Some(isNewEnv(envName)),
                                         !.forcePush = Some(options.forcePush) ]),
              Val(projectName)),
            defaultEditor, envName)
    /\ log' = log \o <<"isNewEnv", "setProjectConfig", "setExeInfo">>
    /\ pc' = "done"
    /\ UNCHANGED <<inputs, projectName, envName, defaultEditor, promptDefault,
                   exitRequest, exitCode>>

----------------------------------------------------------------------------
(* analyzeProjectHeadless *)

setFrontend(info) ==
    [ info EXCEPT !.projectConfig =
        Some([ Val(info.projectConfig) EXCEPT !.frontend =
                 IF options.frontend = None THEN Some("android")
                                            ELSE options.frontend ]) ]

AnalyzeProjectHeadless ==
    /\ pc = "start"
    /\ fn = "analyzeProjectHeadless"
    /\ projectName' = Some(cwdBase)
    /\ envName' = getDefaultEnv
    /\ exeInfo' = setFrontend(setExeInfo(setProjectConfig(exeInfo, cwdBase),
                                         None, getDefaultEnv))
    /\ log' = log \o <<"setProjectConfig", "setExeInfo">>
                  \o (IF options.frontend = None
                        THEN <<"warning:noFrontend">> ELSE <<>>)
    /\ pc' = "done"
    /\ UNCHANGED <<inputs, defaultEditor, promptDefault, exitRequest, exitCode>>

----------------------------------------------------------------------------

Next ==
    \/ AnalyzeProject
    \/ GetProjectName
    \/ ProjectNameAnswer
    \/ GetEnvName
    \/ ConfirmAnswer
    \/ EnvChoiceAnswer
    \/ EnvNameAnswer
    \/ ProcessExit
    \/ GetDefaultEditor
    \/ EditorAnswer
    \/ Assemble
    \/ AnalyzeProjectHeadless

Spec == Init /\ [][Next]_vars

----------------------------------------------------------------------------
(* Properties *)

Completed == fn = "analyzeProject" /\ pc = "done"

Has(e) == \E i \in DOMAIN log : log[i] = e

\* every occurrence of an event of After comes after some event of Before
Precedes(Before, After) ==
    \A i \in DOMAIN log :
        log[i] \in After => \E j \in 1..(i - 1) : log[j] \in Before

\* the event e is directly followed by the event f
FollowedBy(e, f) ==
    \A i \in DOMAIN log :
        log[i] = e => (i + 1 \in DOMAIN log /\ log[i + 1] = f)

EnvPrompts == {"prompt:envName", "prompt:confirm", "prompt:envList"}

SnapshotEnvName == Val(exeInfo.localEnvInfo).envName
SnapshotEditor == Val(exeInfo.localEnvInfo).defaultEditor
SnapshotProjectName == Val(exeInfo.projectConfig).projectName

\* the pattern ^[a-z]{2,10}$
MatchesEnvPattern(s) ==
    /\ Len(s) \in 2..10
    /\ \A i \in 1..Len(s) : s[i] \in LowerCase

\* letters and digits only, length 3 to 20
PassesNameValidation(s) ==
    /\ Len(s) \in 3..20
    /\ \A i \in 1..Len(s) : s[i] \in LowerCase \cup UpperCase \cup Digits

PersistedEnvNames == IF teamProviderFile = None THEN {} ELSE Val(teamProviderFile)

ExplicitEnvInvalid ==
    /\ fn = "analyzeProject"
    /\ ExplicitEnvName
    /\ ~ MatchesEnvPattern(Val(Val(inputParams.amplify).envName))

\* C1: an explicit environment-name parameter that does not match
\* ^[a-z]{2,10}$ ends the process with exit code 1; no name is resolved or
\* written to the snapshot and no environment prompt is issued after the
\* termination request.
C1_InvalidEnvNameTerminates ==
    ExplicitEnvInvalid =>
        /\ envName = None
        /\ exeInfo.localEnvInfo = None
        /\ pc \notin {"getDefaultEditor", "awaitEditor", "classify", "done"}
        /\ exitCode \in {None, Some(1)}
        /\ \A i \in DOMAIN log : \A j \in DOMAIN log :
              (log[i] = "exitOnNextTick" /\ j > i) => log[j] \notin EnvPrompts

\* C2: with inputParams.yes and no environment-name parameter, getEnvName
\* prints 'Environment name missing', emits one usage error, exits with
\* status 1 and never issues a prompt.
C2_MissingEnvNameNeverPrompts ==
    (fn = "analyzeProject" /\ inputParams.yes /\ ~ ExplicitEnvName) =>
        /\ \A i \in DOMAIN log :
              log[i] \notin EnvPrompts \cup {"prompt:projectName", "prompt:editor"}
        /\ Has("getEnvName") =>
              /\ Has("error:envNameMissing")
              /\ Cardinality({i \in DOMAIN log : log[i] = "emitError"}) = 1
              /\ exitRequest = Some(1)
        /\ pc \notin {"getDefaultEditor", "awaitEditor", "classify", "done"}

\* C3: when analyzeProject completes, exeInfo.isNewEnv is false exactly when
\* the resolved environment name is a key of the persisted team-provider
\* mapping; a missing file counts as the empty mapping.
C3_IsNewEnvIffNotPersisted ==
    Completed =>
        /\ exeInfo.isNewEnv # None
        /\ Val(exeInfo.isNewEnv) = FALSE <=> Val(SnapshotEnvName) \in PersistedEnvNames
        /\ teamProviderFile = None => Val(exeInfo.isNewEnv) = TRUE

C3_Witness ==
    /\ Completed
    /\ Val(exeInfo.isNewEnv) = FALSE
    /\ Val(SnapshotEnvName) \in PersistedEnvNames

\* C4: a non-empty persisted defaultEditor is what analyzeProject writes to
\* localEnvInfo.defaultEditor, whatever the mode and the editor parameter,
\* and the editor-selection prompt is not invoked.
C4_PersistedEditorWins ==
    (fn = "analyzeProject" /\ localEnvInfoFile # None
        /\ TruthyEditor(Val(localEnvInfoFile).defaultEditor)) =>
        /\ ~ Has("prompt:editor")
        /\ ~ Has("getEditor")
        /\ pc # "awaitEditor"
        /\ pc = "done" => SnapshotEditor = Val(localEnvInfoFile).defaultEditor

C4_Witness ==
    /\ Completed
    /\ localEnvInfoFile # None
    /\ TruthyEditor(Val(localEnvInfoFile).defaultEditor)
    /\ ExplicitEditor
    /\ ~ inputParams.yes
    /\ SnapshotEditor = Val(localEnvInfoFile).defaultEditor

\* C5: exeInfo.isNewProject is true exactly when no project config file
\* exists; when one exists, analyzeProject takes the persisted project name,
\* asks no project-name question and ignores the projectName parameter.
C5_ProjectIdentity ==
    /\ exeInfo.isNewProject # None =>
          Val(exeInfo.isNewProject) = (projectConfigFile = None)
    /\ (fn = "analyzeProject" /\ projectConfigFile # None) =>
          /\ ~ Has("prompt:projectName")
          /\ pc # "awaitProjectName"
          /\ projectName # None => projectName = Some(Val(projectConfigFile).projectName)
          /\ pc = "done" => SnapshotProjectName = Val(projectConfigFile).projectName

C5_Witness ==
    /\ Completed
    /\ projectConfigFile # None
    /\ ExplicitProjectName
    /\ ~ inputParams.yes
    /\ Val(exeInfo.isNewProject) = FALSE
    /\ SnapshotProjectName = Val(projectConfigFile).projectName

C7_NewProjectNameValidated ==
    (Completed /\ projectConfigFile = None) =>
        PassesNameValidation(SnapshotProjectName)

\* C8 as stated: the editor is resolved before any environment-name
\* resolution, prompt or fatal check, and the snapshot is assembled last.
C8_EditorBeforeEnvironment ==
    fn = "analyzeProject" =>
        /\ Precedes({"getProjectName"}, {"getDefaultEditor"})
        /\ Precedes({"getDefaultEditor"},
                    {"getEnvName", "error:invalidEnvName", "error:envNameMissing",
                     "exitOnNextTick"} \cup EnvPrompts)
        /\ Precedes({"getEnvName"}, {"setProjectConfig", "setExeInfo"})

\* C8 amended: analyzeProject resolves the project name, then the
\* environment name, then the editor, and assembles the snapshot after all
\* three; nothing of an earlier resolver happens once a later one has begun.
C8_ResolverOrder ==
    fn = "analyzeProject" =>
        /\ Precedes({"getProjectName"},
                    {"getEnvName", "error:invalidEnvName", "error:envNameMissing",
                     "exitOnNextTick"} \cup EnvPrompts)
        /\ Precedes({"getEnvName"}, {"getDefaultEditor", "getEditor", "prompt:editor"})
        /\ Precedes({"getDefaultEditor"}, {"isNewEnv", "setProjectConfig", "setExeInfo"})
        /\ Has("getDefaultEditor") => envName # None
        /\ \A i \in DOMAIN log : \A j \in DOMAIN log :
              (i < j /\ log[i] = "getEnvName") =>
                  log[j] \notin {"getProjectName", "prompt:projectName"}
        /\ \A i \in DOMAIN log : \A j \in DOMAIN log :
              (i < j /\ log[i] = "getDefaultEditor") =>
                  log[j] \notin {"getProjectName", "prompt:projectName", "getEnvName",
                                 "error:invalidEnvName", "error:envNameMissing",
                                 "exitOnNextTick"} \cup EnvPrompts

C8_Witness ==
    /\ Completed
    /\ Has("prompt:projectName")
    /\ Has("prompt:envName")
    /\ Has("prompt:editor")

\* C9: exeInfo.sourceEnvName is set only when the environment is new, the
\* project is not new and persisted local environment info exists, and is
\* then that info's environment name; otherwise it stays unset, and missing
\* local environment info does not stop analyzeProject.
C9_SourceEnvName ==
    /\ exeInfo.sourceEnvName # None =>
          /\ Completed
          /\ Val(exeInfo.isNewEnv)
          /\ projectConfigFile # None
          /\ localEnvInfoFile # None
    /\ (Completed /\ (projectConfigFile = None \/ ~ Val(exeInfo.isNewEnv))) =>
          exeInfo.sourceEnvName = None
    /\ (Completed /\ projectConfigFile # None /\ Val(exeInfo.isNewEnv)) =>
          exeInfo.sourceEnvName =
             IF localEnvInfoFile = None THEN None ELSE Val(localEnvInfoFile).envName
    /\ pc = "classify" => ENABLED Assemble

C9_Witness ==
    /\ Completed
    /\ exeInfo.sourceEnvName = Some(dev)
    /\ Val(exeInfo.isNewEnv)
    /\ projectConfigFile # None

Interactive ==
    fn = "analyzeProject" /\ ~ inputParams.yes /\ ~ ExplicitEnvName

\* C10: interactive, no environment parameter, existing project: with no
\* known environment the name prompt comes directly; otherwise the yes/no
\* question comes first, yes leads to the list and the chosen name is a known
\* one (so not new), no leads to the name prompt.  The yes/no question is
\* never asked for a new project.
C10_ExistingEnvironmentFlow ==
    /\ projectConfigFile = None => (~ Has("prompt:confirm") /\ ~ Has("prompt:envList"))
    /\ (Interactive /\ projectConfigFile # None /\ PersistedEnvNames = {}) =>
          /\ FollowedBy("getEnvName", "prompt:envName")
          /\ ~ Has("prompt:confirm")
          /\ ~ Has("prompt:envList")
    /\ (Interactive /\ projectConfigFile # None /\ PersistedEnvNames # {}) =>
          /\ FollowedBy("getEnvName", "prompt:confirm")
          /\ FollowedBy("answer:yes", "prompt:envList")
          /\ FollowedBy("answer:no", "prompt:envName")
          /\ Precedes({"answer:yes"}, {"prompt:envList"})
          /\ Precedes({"answer:no"}, {"prompt:envName"})
          /\ (Has("prompt:envList") /\ envName # None) =>
                Val(envName) \in PersistedEnvNames
          /\ (Has("prompt:envList") /\ pc = "done") =>
                /\ SnapshotEnvName = envName
                /\ Val(exeInfo.isNewEnv) = FALSE

C10_Witness ==
    /\ Completed
    /\ Interactive
    /\ Has("prompt:envList")
    /\ Val(exeInfo.isNewEnv) = FALSE

====
